---------------------------- MODULE Spec2Model ----------------------------
(* A model of rashtriyametal_downloader.py: the run controller main(), the   *)
(* link ranking of fetch_latest_pdf_url, the date heuristics of              *)
(* extract_date_from_text, and the ledger merge of append_table_to_excel,    *)
(* with the Excel write/read round trip the merge goes through.              *)
EXTENDS Integers, Sequences, FiniteSets, TLC

VARIABLES
    ledger,        \* the file EXCEL_TABLE (RMIL_Table.xlsx)
    urlLog,        \* the file EXCEL_URL_LOG (RMIL_Price_Log.xlsx)
    pc,            \* main()'s position
    runs,          \* number of runs of main() started so far
    has_camelot,   \* HAS_CAMELOT, fixed at import
    latest_url,    \* main(): latest_url
    local_pdf,     \* main(): local_pdf (the sanitized file name, as characters)
    circular_date, \* main(): circular_date
    df,            \* main(): df
    tier1,         \* history: what try_extract_tables_with_camelot gave this run
    exit_code,     \* the process exit code of the last finished run (-1: none yet)
    trace,         \* history: the steps the current run has taken, in order
    ledger0,       \* history: the ledger when the current run (or ledger call) started
    urlLog0,       \* history: the checkpoint log when the current run started
    call,          \* the arguments of the last append_table_to_excel call
    ncalls,        \* number of append_table_to_excel calls made (ledger API)
    links,         \* fetch_latest_pdf_url: the candidate links, in page order
    picked,        \* fetch_latest_pdf_url: its outcome
    text,          \* extract_date_from_text: the text, as its date occurrences
    fname,         \* extract_date_from_text: fallback_from_name
    date_out       \* extract_date_from_text: its outcome

vars == <<ledger, urlLog, pc, runs, has_camelot, latest_url, local_pdf,
          circular_date, df, tier1, exit_code, trace, ledger0, urlLog0, call, ncalls,
          links, picked, text, fname, date_out>>

-----------------------------------------------------------------------------
(* Cells and frames.  A cell of a DataFrame is a string, the float NaN or    *)
(* None; a frame is its column labels and its rows, each row aligned with    *)
(* the columns.                                                              *)

S(s) == [k |-> "str", s |-> s]
NaN == [k |-> "nan", s |-> ""]
NoneCell == [k |-> "none", s |-> ""]

\* str(v), as DataFrame.astype(str) renders a cell
Str(v) == CASE v.k = "str" -> v.s
            [] v.k = "nan" -> "nan"
            [] OTHER -> "None"

Frame(cols, rows) == [cols |-> cols, rows |-> rows]

Range(seq) == {seq[i] : i \in 1..Len(seq)}

\* the position of column c in cols (0 if absent)
ColIndex(cols, c) ==
    IF c \in Range(cols) THEN CHOOSE i \in 1..Len(cols) : cols[i] = c ELSE 0

\* df[cols]: the frame's rows laid out over cols, NaN where df has no such column
Reindex(f, cols) ==
    Frame(cols,
          [r \in 1..Len(f.rows) |->
              [j \in 1..Len(cols) |->
                  IF ColIndex(f.cols, cols[j]) = 0 THEN NaN
                  ELSE f.rows[r][ColIndex(f.cols, cols[j])]]])

\* "|".join(strings)
RECURSIVE Join(_)
Join(strs) ==
    IF Len(strs) = 0 THEN ""
    ELSE IF Len(strs) = 1 THEN strs[1]
    ELSE strs[1] \o "|" \o Join(Tail(strs))

\* df.astype(str).agg("|".join, axis=1), for one row
RowKey(row) == Join([j \in 1..Len(row) |-> Str(row[j])])

\* df["_row_key"] = df.astype(str).agg("|".join, axis=1)
WithRowKey(f) ==
    Frame(Append(f.cols, "_row_key"),
          [r \in 1..Len(f.rows) |-> Append(f.rows[r], S(RowKey(f.rows[r])))])

\* pd.concat([a, b], ignore_index=True): a's columns, then b's new ones
Concat(a, b) ==
    LET cols == a.cols \o SelectSeq(b.cols, LAMBDA c : c \notin Range(a.cols))
    IN  Frame(cols, Reindex(a, cols).rows \o Reindex(b, cols).rows)

\* the positions drop_duplicates(subset) keeps: the first of each group
KeptRows(f, subset) ==
    LET proj(r) == [j \in 1..Len(subset) |-> f.rows[r][ColIndex(f.cols, subset[j])]]
    IN  {r \in 1..Len(f.rows) : \A q \in 1..(r - 1) : proj(q) # proj(r)}

RECURSIVE Pick(_, _, _)
Pick(rows, keep, r) ==
    IF r > Len(rows) THEN <<>>
    ELSE (IF r \in keep THEN <<rows[r]>> ELSE <<>>) \o Pick(rows, keep, r + 1)

\* combo.drop_duplicates(subset=[...])
DropDuplicates(f, subset) == Frame(f.cols, Pick(f.rows, KeptRows(f, subset), 1))

-----------------------------------------------------------------------------
(* The Excel round trip.  A file is absent, or holds a header and rows of    *)
(* cells, each a non-empty text or blank.                                    *)

NoFile == [exists |-> FALSE, cols |-> <<>>, rows |-> <<>>]
Blank == NaN

\* the strings read_excel takes for missing values (keep_default_na), those in use
DefaultNA == {"", "NA", "nan", "NULL"}

\* DataFrame.to_excel(path, index=False): NaN, None and "" leave a blank cell
ToExcelCell(v) == IF v.k = "str" /\ v.s # "" THEN v ELSE Blank

to_excel(f) ==
    [exists |-> TRUE, cols |-> f.cols,
     rows |-> [r \in 1..Len(f.rows) |->
                 [j \in 1..Len(f.cols) |-> ToExcelCell(f.rows[r][j])]]]

\* pd.read_excel(path): a blank cell, or a text among the NA strings, is NaN
ReadExcelCell(c) == IF c.k = "str" /\ c.s \notin DefaultNA THEN c ELSE NaN

read_excel(file) ==
    Frame(file.cols,
          [r \in 1..Len(file.rows) |->
              [j \in 1..Len(file.cols) |-> ReadExcelCell(file.rows[r][j])]])


-----------------------------------------------------------------------------
(* append_table_to_excel.  A table argument is None or a frame.              *)

NoTable == [none |-> TRUE, cols |-> <<>>, rows |-> <<>>]
Table(cols, rows) == [none |-> FALSE, cols |-> cols, rows |-> rows]

\* the guard without its df_new.empty half
IsNoneTable(t) == t.none

\* df_new is None or df_new.empty
IsEmptyTable(t) == t.none \/ Len(t.rows) = 0 \/ Len(t.cols) = 0

\* df_new.insert(0, "circular_date", circular_date or ""); df_new.insert(1, "pdf_url", pdf_url)
Enrich(t, pdf_url, cdate) ==
    Frame(<<"circular_date", "pdf_url">> \o t.cols,
          [r \in 1..Len(t.rows) |-> <<S(cdate), S(pdf_url)>> \o t.rows[r]])

\* if "_row_key" not in df_old.columns: df_old["_row_key"] = ...
OldWithKey(f) == IF "_row_key" \in Range(f.cols) THEN f ELSE WithRowKey(f)

\* combo = pd.concat([df_old, df_new]).drop_duplicates(subset=["pdf_url", "_row_key"])
Combo(df_old, df_new) ==
    DropDuplicates(Concat(df_old, df_new), <<"pdf_url", "_row_key">>)

\* meta_cols = [c for c in ["circular_date", "pdf_url"] if c in combo.columns]
MetaCols(cols) ==
    SelectSeq(<<"circular_date", "pdf_url">>, LAMBDA c : c \in Range(cols))

\* other_cols without the exclusion of "_row_key"
OtherColsWithKey(cols, meta) ==
    SelectSeq(cols, LAMBDA c : c \notin Range(meta))

\* other_cols = [c for c in combo.columns if c not in meta_cols + ["_row_key"]]
OtherCols(cols, meta) ==
    SelectSeq(cols, LAMBDA c : c \notin Range(meta) \cup {"_row_key"})

\* the existing-ledger branch: read, key, merge, reorder, save
MergeIntoLedger(file, df_new) ==
    LET combo == Combo(OldWithKey(read_excel(file)), df_new)
        meta  == MetaCols(combo.cols)
    IN  to_excel(Reindex(combo, meta \o OtherCols(combo.cols, meta)))

\* the first-time branch: save with headers, metadata columns at the front
CreateLedger(df_new) ==
    LET meta == <<"circular_date", "pdf_url">>
    IN  to_excel(Reindex(df_new, meta \o OtherCols(df_new.cols, meta)))

\* the ledger file after append_table_to_excel(df_new, pdf_url, circular_date)
append_table_to_excel(file, t, pdf_url, cdate) ==
    IF IsEmptyTable(t) THEN file
    ELSE LET df_new == WithRowKey(Enrich(t, pdf_url, cdate))
         IN  IF file.exists THEN MergeIntoLedger(file, df_new)
             ELSE CreateLedger(df_new)

-----------------------------------------------------------------------------
(* Inputs of the ledger calls.                                               *)

MaxCalls == 2

UrlA == "https://rashtriyametal.com/files/rmil16102025-pdff.pdf"
UrlB == "https://rashtriyametal.com/files/rmil01102025.pdf"

SampleTables ==
    { NoTable,
      Table(<<"Item">>, <<>>),
      Table(<<"Item">>, << <<S("Cu")>> >>),
      Table(<<"Item">>, << <<S("Cu")>>, <<S("Cu")>> >>),
      Table(<<"Item", "Price">>, << <<S("Cu"), S("700/kg")>> >>),
      Table(<<"Item", "Price">>, << <<S("Zn"), S("")>> >>) }

SampleDates == {"", "2025-10-16"}

NoCall == [df |-> NoTable, pdf_url |-> "", circular_date |-> ""]

-----------------------------------------------------------------------------
(* Calendar dates, as datetime.strptime builds them.  A date is the number   *)
(* yyyymmdd, which orders as datetime does.                                  *)

NoDate == [ok |-> FALSE, d |-> 0]
DateNum(y, m, d) == y * 10000 + m * 100 + d

IsLeap(y) == (y % 4 = 0 /\ y % 100 # 0) \/ y % 400 = 0

DaysIn(y, m) ==
    IF m = 2 THEN (IF IsLeap(y) THEN 29 ELSE 28)
    ELSE IF m \in {4, 6, 9, 11} THEN 30 ELSE 31

\* datetime(y, m, d), or the ValueError strptime raises for fields out of range
MakeDate(y, m, d) ==
    IF y >= 1 /\ m \in 1..12 /\ d >= 1 /\ d <= DaysIn(y, m)
    THEN [ok |-> TRUE, d |-> DateNum(y, m, d)]
    ELSE NoDate

Pad2(n) == IF n < 10 THEN "0" \o ToString(n) ELSE ToString(n)

Pad4(n) == IF n < 10 THEN "000" \o ToString(n)
           ELSE IF n < 100 THEN "00" \o ToString(n)
           ELSE IF n < 1000 THEN "0" \o ToString(n)
           ELSE ToString(n)

\* d.strftime("%Y-%m-%d")
Iso(dn) == Pad4(dn \div 10000) \o "-" \o Pad2((dn \div 100) % 100) \o "-" \o Pad2(dn % 100)

-----------------------------------------------------------------------------
(* File names, as sequences of characters, and the digit-run patterns.       *)

Digits == <<"0", "1", "2", "3", "4", "5", "6", "7", "8", "9">>
IsDigit(c) == c \in Range(Digits)
DigitVal(c) == (CHOOSE i \in 1..10 : Digits[i] = c) - 1

\* int(chars[from..to])
RECURSIVE Num(_, _, _)
Num(chars, from, to) ==
    IF to < from THEN 0
    ELSE 10 * Num(chars, from, to - 1) + DigitVal(chars[to])

AllDigits(chars, from, to) == \A i \in from..to : IsDigit(chars[i])

\* re.search(r'(\d{2})(\d{2})(\d{4})', fname): where the leftmost match starts (0: none)
Search8(chars) ==
    LET at == {i \in 1..(Len(chars) - 7) : AllDigits(chars, i, i + 7)}
    IN  IF at = {} THEN 0 ELSE CHOOSE i \in at : \A j \in at : i <= j

\* re.search of a pattern whose year group is (20\d{2}), the year starting `off` in
Search8Year20(chars, off) ==
    LET at == {i \in 1..(Len(chars) - 7) :
                  /\ AllDigits(chars, i, i + 7)
                  /\ chars[i + off] = "2" /\ chars[i + off + 1] = "0"}
    IN  IF at = {} THEN 0 ELSE CHOOSE i \in at : \A j \in at : i <= j

\* datetime.strptime(<8 digits at i>, "%d%m%Y")
ParseDMY(chars, i) ==
    MakeDate(Num(chars, i + 4, i + 7), Num(chars, i + 2, i + 3), Num(chars, i, i + 1))

\* datetime.strptime(<8 digits at i>, "%Y%m%d")
ParseYMD(chars, i) ==
    MakeDate(Num(chars, i, i + 3), Num(chars, i + 4, i + 5), Num(chars, i + 6, i + 7))

UrlC == "https://rashtriyametal.com/files/rmil20251016.pdf"
UrlD == "https://rashtriyametal.com/files/price circular.pdf"
UrlE == "https://rashtriyametal.com/files/rmil31022025.pdf"
UrlF == "https://rashtriyametal.com/files/rmil16102025.pdf"

SampleUrls == {UrlA, UrlB, UrlC, UrlD, UrlE, UrlF}

\* os.path.basename(urlparse(u).path), for the sample URLs
basename(u) ==
    CASE u = UrlA -> <<"r","m","i","l","1","6","1","0","2","0","2","5","-","p","d","f","f",".","p","d","f">>
      [] u = UrlB -> <<"r","m","i","l","0","1","1","0","2","0","2","5",".","p","d","f">>
      [] u = UrlC -> <<"r","m","i","l","2","0","2","5","1","0","1","6",".","p","d","f">>
      [] u = UrlD -> <<"p","r","i","c","e"," ","c","i","r","c","u","l","a","r",".","p","d","f">>
      [] u = UrlE -> <<"r","m","i","l","3","1","0","2","2","0","2","5",".","p","d","f">>
      [] u = UrlF -> <<"r","m","i","l","1","6","1","0","2","0","2","5",".","p","d","f">>
      [] OTHER -> <<>>

-----------------------------------------------------------------------------
(* fetch_latest_pdf_url, from the collected links on.                        *)

\* the date one link's file name yields (lines 74-85), NoDate if it is left out
LinkDate(u) ==
    LET f  == basename(u)
        m1 == Search8(f)
        m2 == Search8Year20(f, 0)
    IN  IF m1 # 0 THEN ParseDMY(f, m1)       \* len(m.group(1)) == 2
        ELSE IF m2 # 0 THEN ParseYMD(f, m2)  \* len(m.group(1)) == 4
        ELSE NoDate

\* dated: the (d, u) pairs of the links that parsed, in page order
RECURSIVE Dated(_)
Dated(ls) ==
    IF Len(ls) = 0 THEN <<>>
    ELSE (IF LinkDate(Head(ls)).ok THEN << <<LinkDate(Head(ls)).d, Head(ls)>> >> ELSE <<>>)
         \o Dated(Tail(ls))

\* one pair put into a list sorted by date, descending, after its equals
RECURSIVE InsertDesc(_, _)
InsertDesc(sorted, x) ==
    IF Len(sorted) = 0 THEN <<x>>
    ELSE IF Head(sorted)[1] >= x[1] THEN <<Head(sorted)>> \o InsertDesc(Tail(sorted), x)
    ELSE <<x>> \o sorted

\* dated.sort(key=lambda x: x[0], reverse=True): stable
RECURSIVE SortDesc(_)
SortDesc(pairs) ==
    IF Len(pairs) = 0 THEN <<>>
    ELSE InsertDesc(SortDesc(SubSeq(pairs, 1, Len(pairs) - 1)), pairs[Len(pairs)])

Raised == [raised |-> TRUE, url |-> ""]
Returned(u) == [raised |-> FALSE, url |-> u]

\* what fetch_latest_pdf_url does with the links it collected
fetch_latest_pdf_url(ls) ==
    IF Len(ls) = 0 THEN Raised
    ELSE IF Len(Dated(ls)) > 0 THEN Returned(SortDesc(Dated(ls))[1][2])
    ELSE Returned(ls[1])

-----------------------------------------------------------------------------
(* extract_date_from_text.  The text is the sequence of its date-like        *)
(* occurrences, left to right; an occurrence matches one of the three        *)
(* patterns: 1 is d[/-]m[/-]20yy, 2 is "d Word 20yy", 3 is "Word d, 20yy".   *)

Occ(pat, d, m, word, y) == [pat |-> pat, d |-> d, m |-> m, word |-> word, y |-> y]

Patterns == <<1, 2, 3>>

\* the month names strptime's %b knows (the locale's abbreviated names)
MonthAbbr == <<"Jan", "Feb", "Mar", "Apr", "May", "Jun",
               "Jul", "Aug", "Sep", "Oct", "Nov", "Dec">>

\* the month %b reads from a word, 0 if strptime raises on it
AbbrMonth(word) ==
    IF word \in Range(MonthAbbr) THEN CHOOSE i \in 1..12 : MonthAbbr[i] = word ELSE 0

\* datetime.strptime of a match's groups under the pattern's format (lines 148-153)
ParseOcc(o) ==
    IF o.pat = 1 THEN MakeDate(o.y, o.m, o.d)
    ELSE MakeDate(o.y, AbbrMonth(o.word), o.d)

\* re.search(pat, text): where in the text the leftmost match of pat is (0: none)
SearchPat(txt, pat) ==
    LET at == {i \in 1..Len(txt) : txt[i].pat = pat}
    IN  IF at = {} THEN 0 ELSE CHOOSE i \in at : \A j \in at : i <= j

\* date_candidates, over the patterns from number p on
RECURSIVE Candidates(_, _)
Candidates(txt, p) ==
    IF p > Len(Patterns) THEN <<>>
    ELSE LET i == SearchPat(txt, Patterns[p])
         IN  (IF i # 0 /\ ParseOcc(txt[i]).ok THEN <<ParseOcc(txt[i]).d>> ELSE <<>>)
             \o Candidates(txt, p + 1)

\* max(date_candidates)
MaxOf(nums) == CHOOSE x \in Range(nums) : \A y \in Range(nums) : y <= x

\* the fallback on the file name (lines 161-168); "" if it yields nothing
DateFromName(name) ==
    LET i == Search8Year20(name, 4)
    IN  IF Len(name) > 0 /\ i # 0 /\ ParseDMY(name, i).ok
        THEN Iso(ParseDMY(name, i).d) ELSE ""

extract_date_from_text(txt, name) ==
    IF Len(Candidates(txt, 1)) > 0 THEN Iso(MaxOf(Candidates(txt, 1)))
    ELSE DateFromName(name)

-----------------------------------------------------------------------------
(* download_pdf's file name.                                                 *)

SafeChars ==
    Range(Digits) \cup {".", "_", "-"} \cup
    {"a","b","c","d","e","f","g","h","i","j","k","l","m",
     "n","o","p","q","r","s","t","u","v","w","x","y","z",
     "A","B","C","D","E","F","G","H","I","J","K","L","M",
     "N","O","P","Q","R","S","T","U","V","W","X","Y","Z"}

\* re.sub(r'[^A-Za-z0-9._-]+', '_', fname): each run of other characters is one "_"
RECURSIVE Sanitize(_)
Sanitize(chars) ==
    IF Len(chars) = 0 THEN <<>>
    ELSE IF Head(chars) \in SafeChars THEN <<Head(chars)>> \o Sanitize(Tail(chars))
    ELSE IF Len(chars) > 1 /\ chars[2] \notin SafeChars THEN Sanitize(Tail(chars))
    ELSE <<"_">> \o Sanitize(Tail(chars))

\* the local path's base name download_pdf returns
LocalName(u) == Sanitize(basename(u))

-----------------------------------------------------------------------------
(* The two extraction tiers.                                                 *)

\* str.strip(), on the strings in use
strip(s) ==
    CASE s = " Item " -> "Item"
      [] s = "Price " -> "Price"
      [] OTHER -> s

IsNA(v) == v.k # "str"

\* df.dropna(how='all', axis=1).dropna(how='all', axis=0)
DropNA(f) ==
    LET keepc == {j \in 1..Len(f.cols) : \E r \in 1..Len(f.rows) : ~IsNA(f.rows[r][j])}
        cols  == Pick(f.cols, keepc, 1)
        g     == Reindex(f, cols)
        keepr == {r \in 1..Len(g.rows) : \E j \in 1..Len(cols) : ~IsNA(g.rows[r][j])}
    IN  Frame(cols, Pick(g.rows, keepr, 1))

\* one detected table, its first row made the header (lines 203-205)
PromoteHeader(raw) ==
    Frame([j \in 1..Len(raw[1]) |-> strip(raw[1][j])],
          [r \in 1..(Len(raw) - 1) |-> [j \in 1..Len(raw[r + 1]) |-> S(raw[r + 1][j])]])

\* pd.concat(norm, ignore_index=True)
RECURSIVE ConcatAll(_)
ConcatAll(frames) ==
    IF Len(frames) = 1 THEN frames[1]
    ELSE Concat(ConcatAll(SubSeq(frames, 1, Len(frames) - 1)), frames[Len(frames)])

\* try_extract_tables_with_camelot, given HAS_CAMELOT, whether camelot raises,
\* and the tables each flavor detects
try_extract_tables_with_camelot(has, fails, lattice, stream) ==
    LET dfs == IF Len(lattice) > 0 THEN lattice ELSE stream
    IN  IF ~has \/ fails \/ Len(dfs) = 0 THEN NoTable
        ELSE LET out == DropNA(ConcatAll([i \in 1..Len(dfs) |-> PromoteHeader(dfs[i])]))
             IN  Table(out.cols, out.rows)

Min(a, b) == IF a < b THEN a ELSE b
MaxLen(rows) == CHOOSE n \in {Len(rows[i]) : i \in 1..Len(rows)} :
                    \A i \in 1..Len(rows) : Len(rows[i]) <= n

\* pd.DataFrame(rows): short rows padded with None; columns col_1, col_2, ...
RaggedFrame(rows) ==
    Frame([j \in 1..MaxLen(rows) |-> "col_" \o ToString(j)],
          [r \in 1..Len(rows) |->
              [j \in 1..MaxLen(rows) |->
                  IF j <= Len(rows[r]) THEN S(rows[r][j]) ELSE NoneCell]])

\* fallback_extract_table_with_pdfplumber, given the split lines with more than one part
fallback_extract_table_with_pdfplumber(rows) ==
    IF Len(rows) = 0 THEN NoTable
    ELSE LET f    == RaggedFrame(rows)
             top  == {i \in 1..Min(10, Len(rows)) : Len(rows[i]) = Len(f.cols)}
             h    == IF top = {} THEN 0 ELSE CHOOSE i \in top : \A j \in top : i <= j
             hit  == IF h = 0 THEN {}
                     ELSE {i \in 1..Len(rows) : rows[i][1] = rows[h][1]}
             drop == IF hit = {} THEN 0 ELSE CHOOSE i \in hit : \A j \in hit : i <= j
             g    == IF h = 0 THEN f
                     ELSE Frame([j \in 1..Len(f.cols) |-> strip(rows[h][j])],
                                Pick(f.rows, (1..Len(rows)) \ {drop}, 1))
             keepc == {j \in 1..Len(g.cols) : \E r \in 1..Len(g.rows) : ~IsNA(g.rows[r][j])}
             cols == Pick(g.cols, keepc, 1)
         IN  Table(cols, Reindex(g, cols).rows)

-----------------------------------------------------------------------------
(* The checkpoint log.                                                       *)

LogCols == <<"timestamp", "circular_date", "pdf_url", "local_pdf">>

NoneStr == [none |-> TRUE, s |-> ""]
SomeStr(s) == [none |-> FALSE, s |-> s]

\* "".join(chars)
RECURSIVE Text(_)
Text(chars) == IF Len(chars) = 0 THEN "" ELSE Head(chars) \o Text(Tail(chars))

\* read_last_logged_url() reading the local_pdf column in place of pdf_url
read_last_logged_local(file) ==
    IF ~file.exists THEN NoneStr
    ELSE LET f == read_excel(file)
         IN  IF "local_pdf" \in Range(f.cols) /\ Len(f.rows) > 0
             THEN SomeStr(Str(f.rows[Len(f.rows)][ColIndex(f.cols, "local_pdf")]))
             ELSE NoneStr

\* read_last_logged_url()
read_last_logged_url(file) ==
    IF ~file.exists THEN NoneStr
    ELSE LET f == read_excel(file)
         IN  IF "pdf_url" \in Range(f.cols) /\ Len(f.rows) > 0
             THEN SomeStr(Str(f.rows[Len(f.rows)][ColIndex(f.cols, "pdf_url")]))
             ELSE NoneStr

\* the log file after write_url_log(pdf_url, local_pdf, circular_date) at time now
write_url_log(file, pdf_url, local, cdate, now) ==
    LET new_row == Frame(LogCols, << <<S(now), S(cdate), S(pdf_url), S(local)>> >>)
    IN  IF file.exists
        THEN LET f0 == read_excel(file)
                 f  == Reindex(f0, f0.cols \o SelectSeq(LogCols, LAMBDA c : c \notin Range(f0.cols)))
             IN  to_excel(Concat(f, new_row))
        ELSE to_excel(new_row)

\* last_url and last_url.strip() == latest_url.strip()
SameAsLastRun(last_url, latest) ==
    ~last_url.none /\ last_url.s # "" /\ strip(last_url.s) = strip(latest)

\* a handler that exits 0 whatever happened
ExitCodeAlwaysZero(how) == 0

\* the exit code: sys.exit(0) passes the handler, an Exception gives 1, a return 0
ExitCode(how) == IF how = "raise" THEN 1 ELSE 0

-----------------------------------------------------------------------------
(* What a run of main() meets: the circulars page, the PDF's text and the    *)
(* tables the two tiers see in it.                                           *)

MaxRuns == 2

Page(ok, anchors, hidden) == [ok |-> ok, anchors |-> anchors, hidden |-> hidden]

SamplePages ==
    { Page(FALSE, <<>>, <<>>),          \* requests.get / raise_for_status raises
      Page(TRUE, <<>>, <<>>),           \* no PDF link anywhere
      Page(TRUE, <<UrlB, UrlA>>, <<>>),
      Page(TRUE, <<UrlD, UrlE>>, <<>>),
      Page(TRUE, <<>>, <<UrlF>>) }      \* only a link in an onclick attribute

\* links, as lines 53-66 collect them: the anchors, else the attribute URLs
CollectLinks(page) == IF Len(page.anchors) > 0 THEN page.anchors ELSE page.hidden

SampleTexts == { <<>>, <<Occ(1, 1, 10, "", 2025)>> }

RawHeaderOnly == << <<" Item ", "Price ">> >>
RawOneRow == << <<" Item ", "Price ">>, <<"Cu", "700/kg">> >>

\* what a camelot flavor detects: nothing, a header-only table, a one-row table
SampleDetections == { <<>>, <<RawHeaderOnly>>, <<RawOneRow>> }

\* the lines pdfplumber's text splits into more than one part
SampleLines ==
    { <<>>,
      << <<"Item", "Price">> >>,
      << <<"Item", "Price", "Unit">>, <<"Zn", "650/kg">> >> }

-----------------------------------------------------------------------------
(* main(), step by step, and the __main__ handler.                           *)

ledgerApiVars == <<call, ncalls>>
pureVars == <<links, picked, text, fname, date_out>>
runLocals == <<has_camelot, latest_url, local_pdf, circular_date, df, tier1>>
history == <<runs, ledger0, urlLog0>>

\* the run goes on to the next step
Goes(step, next) ==
    /\ pc' = next
    /\ trace' = Append(trace, step)
    /\ exit_code' = exit_code

\* the run ends in step `step`: how is "raise", "sys.exit" or "return"
Ends(step, how) ==
    /\ pc' = "idle"
    /\ trace' = trace \o <<step, how>>
    /\ exit_code' = ExitCode(how)

\* a new process: the imports (HAS_CAMELOT), then main() up to ensure_dirs()
Start ==
    /\ pc = "idle" /\ runs < MaxRuns
    /\ runs' = runs + 1
    /\ has_camelot' \in BOOLEAN
    /\ pc' = "discover" /\ trace' = <<>> /\ exit_code' = -1
    /\ ledger0' = ledger /\ urlLog0' = urlLog
    /\ latest_url' = "" /\ local_pdf' = <<>> /\ circular_date' = ""
    /\ df' = NoTable /\ tier1' = NoTable
    /\ UNCHANGED <<ledger, urlLog, ledgerApiVars, pureVars>>

\* latest_url = fetch_latest_pdf_url()
Discover ==
    /\ pc = "discover"
    /\ \E page \in SamplePages :
          LET r == IF page.ok THEN fetch_latest_pdf_url(CollectLinks(page)) ELSE Raised
          IN  IF r.raised
              THEN Ends("discover", "raise") /\ latest_url' = latest_url
              ELSE Goes("discover", "check") /\ latest_url' = r.url
    /\ UNCHANGED <<ledger, urlLog, has_camelot, local_pdf, circular_date, df, tier1,
                   history, ledgerApiVars, pureVars>>

\* last_url = read_last_logged_url(); the skip on an unchanged URL
CheckDuplicate ==
    /\ pc = "check"
    /\ IF SameAsLastRun(read_last_logged_url(urlLog), latest_url)
       THEN Ends("check", "sys.exit")
       ELSE Goes("check", "download")
    /\ UNCHANGED <<ledger, urlLog, runLocals, history, ledgerApiVars, pureVars>>

\* local_pdf = download_pdf(latest_url)
Download ==
    /\ pc = "download"
    /\ \/ Ends("download", "raise") /\ local_pdf' = local_pdf
       \/ Goes("download", "read_text") /\ local_pdf' = LocalName(latest_url)
    /\ UNCHANGED <<ledger, urlLog, has_camelot, latest_url, circular_date, df, tier1,
                   history, ledgerApiVars, pureVars>>

\* text = read_pdf_text(local_pdf); circular_date = extract_date_from_text(text, name)
ReadText ==
    /\ pc = "read_text"
    /\ \/ Ends("read_text", "raise") /\ circular_date' = circular_date
       \/ \E txt \in SampleTexts :
             /\ Goes("read_text", "tier1")
             /\ circular_date' = extract_date_from_text(txt, local_pdf)
    /\ UNCHANGED <<ledger, urlLog, has_camelot, latest_url, local_pdf, df, tier1,
                   history, ledgerApiVars, pureVars>>

\* df = None; if HAS_CAMELOT: df = try_extract_tables_with_camelot(local_pdf)
StructuredTier ==
    /\ pc = "tier1"
    /\ \E fails \in BOOLEAN, lattice \in SampleDetections, stream \in SampleDetections :
          /\ df' = try_extract_tables_with_camelot(has_camelot, fails, lattice, stream)
          /\ tier1' = df'
    /\ Goes("tier1", "tier2")
    /\ UNCHANGED <<ledger, urlLog, has_camelot, latest_url, local_pdf, circular_date,
                   history, ledgerApiVars, pureVars>>

\* if df is None: df = fallback_extract_table_with_pdfplumber(local_pdf)
HeuristicTier ==
    /\ pc = "tier2" /\ df.none
    /\ \/ Ends("tier2", "raise") /\ df' = df
       \/ \E rows \in SampleLines :
             /\ Goes("tier2", "append")
             /\ df' = fallback_extract_table_with_pdfplumber(rows)
    /\ UNCHANGED <<ledger, urlLog, has_camelot, latest_url, local_pdf, circular_date,
                   tier1, history, ledgerApiVars, pureVars>>

\* df is not None: the fallback is passed over
SkipHeuristicTier ==
    /\ pc = "tier2" /\ ~df.none
    /\ pc' = "append"
    /\ UNCHANGED <<ledger, urlLog, runLocals, trace, exit_code, history,
                   ledgerApiVars, pureVars>>

\* append_table_to_excel(df, latest_url, circular_date)
Persist ==
    /\ pc = "append"
    /\ ledger' = append_table_to_excel(ledger, df, latest_url, circular_date)
    /\ Goes("append", "log")
    /\ UNCHANGED <<urlLog, runLocals, history, ledgerApiVars, pureVars>>

\* write_url_log(latest_url, local_pdf, circular_date), and main() returns
LogCheckpoint ==
    /\ pc = "log"
    /\ urlLog' = write_url_log(urlLog, latest_url, Text(local_pdf), circular_date,
                               "run " \o ToString(runs))
    /\ Ends("log", "return")
    /\ UNCHANGED <<ledger, runLocals, history, ledgerApiVars, pureVars>>

Init ==
    /\ ledger = NoFile /\ urlLog = NoFile
    /\ pc = "idle" /\ runs = 0 /\ has_camelot = FALSE
    /\ latest_url = "" /\ local_pdf = <<>> /\ circular_date = ""
    /\ df = NoTable /\ tier1 = NoTable
    /\ exit_code = -1 /\ trace = <<>>
    /\ ledger0 = NoFile /\ urlLog0 = NoFile
    /\ call = NoCall /\ ncalls = 0
    /\ links = <<>> /\ picked = Raised
    /\ text = <<>> /\ fname = <<>> /\ date_out = ""

Next ==
    \/ Start
    \/ Discover
    \/ CheckDuplicate
    \/ Download
    \/ ReadText
    \/ StructuredTier
    \/ HeuristicTier
    \/ SkipHeuristicTier
    \/ Persist
    \/ LogCheckpoint

Spec == Init /\ [][Next]_vars

-----------------------------------------------------------------------------
(* The ledger on its own: a sequence of append_table_to_excel calls, from a  *)
(* ledger that does not exist yet.                                           *)

AppendCall ==
    /\ ncalls < MaxCalls
    /\ \E t \in SampleTables, u \in {UrlA, UrlB}, d \in SampleDates :
          /\ call' = [df |-> t, pdf_url |-> u, circular_date |-> d]
          /\ ledger' = append_table_to_excel(ledger, t, u, d)
    /\ ncalls' = ncalls + 1
    /\ ledger0' = ledger
    /\ UNCHANGED <<urlLog, pc, runLocals, exit_code, trace, runs, urlLog0, pureVars>>

NextLedger == AppendCall

SpecLedger == Init /\ [][NextLedger]_vars

-----------------------------------------------------------------------------
(* The link ranking on its own: any list of the sample links, in any order.  *)

MaxLinks == 3

SeqsUpTo(set, n) == UNION {[1..k -> set] : k \in 0..n}

InitLinks ==
    /\ ledger = NoFile /\ urlLog = NoFile
    /\ pc = "rank" /\ runs = 0 /\ has_camelot = FALSE
    /\ latest_url = "" /\ local_pdf = <<>> /\ circular_date = ""
    /\ df = NoTable /\ tier1 = NoTable
    /\ exit_code = -1 /\ trace = <<>>
    /\ ledger0 = NoFile /\ urlLog0 = NoFile
    /\ call = NoCall /\ ncalls = 0
    /\ links \in SeqsUpTo(SampleUrls, MaxLinks) /\ picked = Raised
    /\ text = <<>> /\ fname = <<>> /\ date_out = ""

Rank ==
    /\ pc = "rank"
    /\ picked' = fetch_latest_pdf_url(links)
    /\ pc' = "ranked"
    /\ UNCHANGED <<ledger, urlLog, runLocals, exit_code, trace, history,
                   ledgerApiVars, links, text, fname, date_out>>

NextLinks == Rank

SpecLinks == InitLinks /\ [][NextLinks]_vars

-----------------------------------------------------------------------------
(* The date heuristics on their own: any short text of the sample            *)
(* occurrences, with or without a file name to fall back on.                 *)

MaxOccs == 2

SampleOccs ==
    { Occ(1, 1, 2, "", 2025), Occ(1, 1, 10, "", 2025),
      Occ(1, 31, 2, "", 2025), Occ(1, 31, 10, "", 2025),
      Occ(2, 16, 0, "Oct", 2025), Occ(2, 16, 0, "October", 2025),
      Occ(2, 20, 0, "Nov", 2024),
      Occ(3, 2, 0, "Oct", 2025), Occ(3, 30, 0, "November", 2025) }

SampleNames == { <<>>, LocalName(UrlB), LocalName(UrlC) }

InitDates ==
    /\ ledger = NoFile /\ urlLog = NoFile
    /\ pc = "extract" /\ runs = 0 /\ has_camelot = FALSE
    /\ latest_url = "" /\ local_pdf = <<>> /\ circular_date = ""
    /\ df = NoTable /\ tier1 = NoTable
    /\ exit_code = -1 /\ trace = <<>>
    /\ ledger0 = NoFile /\ urlLog0 = NoFile
    /\ call = NoCall /\ ncalls = 0
    /\ links = <<>> /\ picked = Raised
    /\ text \in SeqsUpTo(SampleOccs, MaxOccs) /\ fname \in SampleNames
    /\ date_out = ""

ExtractDate ==
    /\ pc = "extract"
    /\ date_out' = extract_date_from_text(text, fname)
    /\ pc' = "extracted"
    /\ UNCHANGED <<ledger, urlLog, runLocals, exit_code, trace, history,
                   ledgerApiVars, links, picked, text, fname>>

NextDates == ExtractDate

SpecDates == InitDates /\ [][NextDates]_vars

-----------------------------------------------------------------------------
(* Properties of the ledger (SpecLedger).                                    *)

\* the text of a stored cell ("" for a blank one)
CellText(c) == IF c.k = "str" THEN c.s ELSE ""

\* a stored row's content signature: its cell values joined by "|"
Signature(row) == Join([j \in 1..Len(row) |-> CellText(row[j])])

\* the stored rows of a file, laid out over the columns cols
StoredOver(file, cols) == Reindex(Frame(file.cols, file.rows), cols).rows

\* a is a subsequence of b
RECURSIVE IsSubseq(_, _)
IsSubseq(a, b) ==
    IF Len(a) = 0 THEN TRUE
    ELSE IF Len(b) = 0 THEN FALSE
    ELSE IF Head(a) = Head(b) THEN IsSubseq(Tail(a), Tail(b))
    ELSE IsSubseq(a, Tail(b))

LastCallAppends == ncalls > 0 /\ ~call.df.none /\ Len(call.df.rows) > 0

\* C2: a call of append_table_to_excel with the same table, pdf_url and
\* circular_date as the call just before it leaves the ledger as that call left it.
C2_AppendTwiceSameLedger ==
    [][(ncalls > 0 /\ call' = call) => ledger' = ledger]_vars

\* C3: no two rows of the stored ledger have both the same pdf_url and the same
\* row-content signature.
C3_LedgerKeyUnique ==
    \A i, j \in 1..Len(ledger.rows) :
        (/\ i # j
         /\ ledger.rows[i][ColIndex(ledger.cols, "pdf_url")]
              = ledger.rows[j][ColIndex(ledger.cols, "pdf_url")])
        => Signature(ledger.rows[i]) # Signature(ledger.rows[j])

NewCols == SelectSeq(call.df.cols, LAMBDA c : c \notin Range(ledger0.cols))

\* C8: the signature column is never stored; and after a call on an existing
\* ledger with a table that has columns the ledger lacks, the ledger has the
\* columns it had, in their order (circular_date and pdf_url first), then the new
\* ones, and each row it held is there with the new columns blank.
C8_HeaderStable ==
    /\ "_row_key" \notin Range(ledger.cols)
    /\ (LastCallAppends /\ ledger0.exists /\ Len(NewCols) > 0)
       => /\ ledger.cols = ledger0.cols \o NewCols
          /\ SubSeq(ledger.cols, 1, 2) = <<"circular_date", "pdf_url">>
          /\ \A r \in 1..Len(ledger0.rows) :
                \E q \in 1..Len(ledger.rows) :
                    ledger.rows[q] = ledger0.rows[r] \o [j \in 1..Len(NewCols) |-> Blank]

\* a call added a column to a ledger that already held a row
C8_Witness ==
    /\ LastCallAppends /\ ledger0.exists /\ Len(ledger0.rows) > 0
    /\ ledger0.cols = <<"circular_date", "pdf_url", "Item">>
    /\ ledger.cols = <<"circular_date", "pdf_url", "Item", "Price">>

-----------------------------------------------------------------------------
(* Properties of a run of main() (Spec).                                     *)

Last(seq) == seq[Len(seq)]
RunEnded == pc = "idle" /\ Len(trace) > 0

\* the text in the pdf_url cell of a stored log's last row
LastLoggedUrl(file) == CellText(file.rows[Len(file.rows)][ColIndex(file.cols, "pdf_url")])

\* the run found, as the URL to process, the one the checkpoint log ended with
UnchangedUrl ==
    /\ "check" \in Range(trace)
    /\ urlLog0.exists /\ Len(urlLog0.rows) > 0
    /\ strip(LastLoggedUrl(urlLog0)) = strip(latest_url)

\* C1: a run whose discovered URL equals, trimmed, the last pdf_url of the
\* checkpoint log ends at the check with exit code 0, downloads nothing, and
\* leaves the ledger and the checkpoint log as they were before it.
C1_SkipOnUnchangedUrl ==
    UnchangedUrl
    => /\ pc = "idle" /\ Last(trace) = "sys.exit" /\ exit_code = 0
       /\ "download" \notin Range(trace)
       /\ ledger = ledger0 /\ urlLog = urlLog0

\* a second run skipped, after a first that wrote the ledger
C1_Witness ==
    /\ UnchangedUrl /\ pc = "idle" /\ exit_code = 0
    /\ runs = 2 /\ ledger.exists

\* C5: a run in which discovery, the download or the extraction raises ends with
\* exit code 1 and the ledger and the checkpoint log as they were before it; and
\* a run changes either file only once the extraction has returned.
C5_AbortWritesNothing ==
    /\ (RunEnded /\ Last(trace) = "raise")
       => /\ exit_code = 1
          /\ trace[Len(trace) - 1] \in {"discover", "download", "read_text", "tier2"}
          /\ ledger = ledger0 /\ urlLog = urlLog0
    /\ (ledger # ledger0 \/ urlLog # urlLog0) => "append" \in Range(trace)

\* the heuristic tier raised in a run that started with a ledger and a log
C5_Witness ==
    /\ RunEnded /\ Last(trace) = "raise" /\ trace[Len(trace) - 1] = "tier2"
    /\ ledger0.exists /\ urlLog0.exists /\ exit_code = 1

\* C6: a run that returns with no table extracted (None or an empty table) has
\* exit code 0, leaves the ledger as it was, and appends to the checkpoint log
\* one row, with the discovered pdf_url, after the rows the log held; the next
\* run that discovers this URL would skip.
C6_EmptyExtractionAdvancesCheckpoint ==
    (RunEnded /\ Last(trace) = "return" /\ (df.none \/ Len(df.rows) = 0))
    => /\ exit_code = 0
       /\ ledger = ledger0
       /\ urlLog.exists /\ urlLog.cols = LogCols
       /\ Len(urlLog.rows) = Len(urlLog0.rows) + 1
       /\ SubSeq(urlLog.rows, 1, Len(urlLog0.rows)) = urlLog0.rows
       /\ LastLoggedUrl(urlLog) = latest_url
       /\ SameAsLastRun(read_last_logged_url(urlLog), latest_url)

\* an empty table from the structured tier, in a run that started with a ledger
C6_Witness ==
    /\ RunEnded /\ Last(trace) = "return"
    /\ ~df.none /\ Len(df.rows) = 0
    /\ ledger0.exists /\ urlLog0.exists

\* C10: in a run that got past extraction, the heuristic tier was attempted if
\* and only if the structured tier produced nothing appendable (it was
\* unavailable, failed, detected no table, or gave a table without rows).
C10_TierFallThrough ==
    "append" \in Range(trace) \/ pc = "append"
    => ("tier2" \in Range(trace) <=> (tier1.none \/ Len(tier1.rows) = 0))

-----------------------------------------------------------------------------
(* Properties of the link ranking (SpecLinks).                               *)

\* the date a file name embeds, read as DDMMYYYY or else as YYYYMMDD
EmbeddedDate(u) ==
    LET f == basename(u)
        i == Search8(f)
    IN  IF i = 0 THEN NoDate
        ELSE IF ParseDMY(f, i).ok THEN ParseDMY(f, i)
        ELSE ParseYMD(f, i)

\* C7: of a non-empty list of links, the one returned is the first, in page
\* order, of those whose embedded date is the maximum; if no link embeds a date
\* it is the first link.
C7_RankingReturnsMaxDate ==
    (pc = "ranked" /\ Len(links) > 0)
    => LET dated == {i \in 1..Len(links) : EmbeddedDate(links[i]).ok}
           best  == {i \in dated : \A j \in dated :
                        EmbeddedDate(links[j]).d <= EmbeddedDate(links[i]).d}
       IN  IF dated = {} THEN picked = Returned(links[1])
           ELSE picked = Returned(links[CHOOSE i \in best : \A j \in best : i <= j])

-----------------------------------------------------------------------------
(* Properties of the date heuristics (SpecDates).                            *)

MonthNames == <<"January", "February", "March", "April", "May", "June", "July",
                "August", "September", "October", "November", "December">>

\* the calendar date an occurrence states, its month a number, an abbreviated
\* name or a full name
OccDate(o) ==
    IF o.pat = 1 THEN MakeDate(o.y, o.m, o.d)
    ELSE IF o.word \in Range(MonthAbbr)
         THEN MakeDate(o.y, CHOOSE i \in 1..12 : MonthAbbr[i] = o.word, o.d)
    ELSE IF o.word \in Range(MonthNames)
         THEN MakeDate(o.y, CHOOSE i \in 1..12 : MonthNames[i] = o.word, o.d)
    ELSE NoDate

\* C9: for a text with at least one valid date occurrence, the result is the ISO
\* form of the latest of all its valid occurrences.
C9_LatestDateWins ==
    (pc = "extracted" /\ \E i \in 1..Len(text) : OccDate(text[i]).ok)
    => LET valid == {OccDate(text[i]).d : i \in {k \in 1..Len(text) : OccDate(text[k]).ok}}
       IN  date_out = Iso(CHOOSE x \in valid : \A y \in valid : y <= x)

=============================================================================
